---- MODULE Spec2Model ----
(***************************************************************************)
(* InnoScout: the mandates endpoint (api/mandates.ts), the POST-only model *)
(* endpoints (api/gemini-search.ts, api/find-startups.ts, gemini-evaluate, *)
(* generate-mandate-name), the client service (src/services/               *)
(* geminiService.ts) and the App component (src/App.tsx).                  *)
(*                                                                         *)
(* Each part has its own specification over the shared variables:          *)
(*   SpecMandates, SpecEndpoints, SpecService and Spec (the App).          *)
(***************************************************************************)
EXTENDS Integers, Sequences, FiniteSets, TLC

VARIABLES
  \* ---- api/mandates.ts
  mandatesStore,      \* let mandatesStore: Mandate[]
  activeMandateId,    \* let activeMandateId: string | null
  idSeq,              \* number of ids generateId() has handed out
  mpc,                \* "idle" | "handling" | "responded"
  mreq,               \* the request being handled
  mres,               \* the response written to res
  mprev               \* history: the store and the active id when handler was entered

mandateVars == <<mandatesStore, activeMandateId, idSeq, mpc, mreq, mres, mprev>>

VARIABLES
  \* ---- the POST-only endpoints that front the model API
  apiKeySet,          \* process.env.GEMINI_API_KEY is set
  epc,                \* "idle" | "start" | "await1" | "await2" | "responded"
  ereq,               \* the request being handled
  eres,               \* the response written to res
  apiCalls,           \* the requests this handler run has sent to the model API
  elist               \* what was read from the model API's replies: the list of
                      \* gemini-search, the text part of generate-mandate-name

endpointVars == <<apiKeySet, epc, ereq, eres, apiCalls, elist>>

VARIABLES
  \* ---- src/services/geminiService.ts: one call of findStartups / evaluateStartup
  aistudio,           \* window.aistudio?.openSelectKey exists
  spc,                \* "idle" | "request" | "selectKey" | "done"
  scall,              \* the function called
  sattempt,           \* "base" | "fallback": which prompt the current attempt sends
  stry,               \* "first" | "again": executeGenAI's request or its retry
  sreqs,              \* the prompts of the requests sent to the model API so far
  sbaseErr,           \* history: how the base attempt failed ("none" when it did not)
  sfallbackErr,       \* history: how the fallback attempt failed ("none" when it did not)
  sresult,            \* "pending" | "resolved" | "rejected"
  svalue,             \* generateClarificationQuestions: how many questions it returned
  sfile               \* evaluateStartup: fileData was passed

serviceVars ==
  <<aistudio, spc, scall, sattempt, stry, sreqs, sbaseErr, sfallbackErr, sresult,
    svalue, sfile>>

VARIABLES
  \* ---- src/App.tsx, src/components/ClarificationWizard.tsx
  state,              \* useState<AppState>
  searchInput,        \* useState('')
  searchStatus,       \* 'idle' | 'searching' | 'selecting' | 'evaluating'
  candidates,         \* useState<StartupCandidate[]>([])
  selectedFile,       \* a file is attached (selectedFile !== null)
  storage,            \* localStorage item 'innoscout_brief'
  wizard,             \* the state of the mounted ClarificationWizard
  pending,            \* the search / evaluation requests in flight, oldest first
  alerted,            \* the alert() the last step raised, "none" when it raised none
  op                  \* the handler the last step ran

appVars ==
  <<state, searchInput, searchStatus, candidates, selectedFile, storage, wizard,
    pending, alerted, op>>

vars == <<mandateVars, endpointVars, serviceVars, appVars>>

\* ---------------------------------------------------------------- JS values
Undef == "undefined"
Null == "null"
\* an array-typed field that is undefined (arrays are sequences of strings)
UndefArr == <<Undef>>

\* JS truthiness of a string-or-undefined value: "" and undefined are falsy
TruthyStr(s) == s # Undef /\ s # ""
\* JS truthiness of an array-or-undefined value: every array, [] included, is truthy
TruthyArr(a) == a # UndefArr

\* ------------------------------------------------------------------ bounds
MaxIds == 2

\* ======================================================= api/mandates.ts
Methods == {"GET", "POST", "PATCH", "DELETE", "OPTIONS", "PUT"}

\* req.url as its path segments: "/api/mandates" is <<"api", "mandates">>
PathRoot == <<"api", "mandates">>
PathSetActive == <<"api", "mandates", "set-active">>
PathItem == <<"api", "mandates", "m">>
PathOther == <<"api", "other">>
Paths == {PathRoot, PathSetActive, PathItem, PathOther}

\* path.startsWith('/api/mandates/')
StartsWithMandatesSlash(p) == Len(p) >= 3 /\ SubSeq(p, 1, 2) = PathRoot

\* the ids generateId() can have produced, as strings
IdOf(n) == ToString(n)
Ids == {IdOf(n) : n \in 1..MaxIds}

\* req.body is undefined when the request carries no (typed) body
NoBody ==
  [present |-> FALSE, name |-> Undef, innovationTopic |-> Undef,
   clarificationAnswers |-> UndefArr, refinementRules |-> UndefArr,
   setAsActive |-> FALSE, mandateId |-> Undef]

FieldBodies ==
  [present : {TRUE}, name : {Undef, "", "n1"}, innovationTopic : {Undef, "", "t1"},
   clarificationAnswers : {UndefArr, <<"a1">>}, refinementRules : {UndefArr, <<"r1">>},
   setAsActive : BOOLEAN, mandateId : {Undef}]

Bodies ==
  {NoBody} \cup FieldBodies
  \cup {[NoBody EXCEPT !.present = TRUE, !.mandateId = i] : i \in Ids}

Requests ==
  [method : Methods, path : Paths, queryId : Ids \cup {Undef}, body : Bodies]

NoRequest == [method |-> "GET", path |-> PathOther, queryId |-> Undef, body |-> NoBody]
NoResponse == [status |-> 0, handler |-> "none"]

\* what a handler leaves behind: the module state and the response
Out(store, active, ids, status, h) ==
  [store |-> store, active |-> active, ids |-> ids, status |-> status,
   handler |-> h, threw |-> FALSE]

\* a handler that throws before it changes anything (destructuring req.body
\* when it is undefined is a TypeError)
Throw(h) ==
  [store |-> mandatesStore, active |-> activeMandateId, ids |-> idSeq,
   status |-> 0, handler |-> h, threw |-> TRUE]

\* mandatesStore.findIndex(m => m.id === id): 0 when there is none
FindIndex(store, id) ==
  IF \E i \in 1..Len(store) : store[i].id = id
  THEN CHOOSE i \in 1..Len(store) :
         store[i].id = id /\ \A j \in 1..(i - 1) : store[j].id # id
  ELSE 0

\* store.splice(index, 1)
Splice(store, i) == SubSeq(store, 1, i - 1) \o SubSeq(store, i + 1, Len(store))

handleList(r) == Out(mandatesStore, activeMandateId, idSeq, 200, "handleList")

handleCreate(r) ==
  IF ~r.body.present THEN Throw("handleCreate")
  ELSE IF ~TruthyStr(r.body.innovationTopic) \/ ~TruthyStr(r.body.name)
  THEN Out(mandatesStore, activeMandateId, idSeq, 400, "handleCreate")
  ELSE
    LET mandate ==
          [id |-> IdOf(idSeq + 1),
           name |-> r.body.name,
           innovationTopic |-> r.body.innovationTopic,
           clarificationAnswers |->
             IF TruthyArr(r.body.clarificationAnswers)
             THEN r.body.clarificationAnswers ELSE <<>>,
           refinementRules |-> <<>>]
        store == Append(mandatesStore, mandate)
        active == IF r.body.setAsActive \/ Len(store) = 1
                  THEN mandate.id ELSE activeMandateId
    IN Out(store, active, idSeq + 1, 201, "handleCreate")

handleUpdate(r) ==
  IF ~r.body.present THEN Throw("handleUpdate")
  ELSE
    LET i == FindIndex(mandatesStore, r.queryId) IN
    IF i = 0 THEN Out(mandatesStore, activeMandateId, idSeq, 404, "handleUpdate")
    ELSE
      LET m == mandatesStore[i]
          m2 == [m EXCEPT
                  !.name = IF TruthyStr(r.body.name) THEN r.body.name ELSE @,
                  !.innovationTopic =
                    IF TruthyStr(r.body.innovationTopic)
                    THEN r.body.innovationTopic ELSE @,
                  !.clarificationAnswers =
                    IF TruthyArr(r.body.clarificationAnswers)
                    THEN r.body.clarificationAnswers ELSE @,
                  !.refinementRules =
                    IF TruthyArr(r.body.refinementRules)
                    THEN r.body.refinementRules ELSE @]
      IN Out([mandatesStore EXCEPT ![i] = m2], activeMandateId, idSeq, 200, "handleUpdate")

\* handleDelete without the switch of the active mandate
handleDeleteKeepsActive(r) ==
  LET index == FindIndex(mandatesStore, r.queryId) IN
  IF index = 0 THEN Out(mandatesStore, activeMandateId, idSeq, 404, "handleDelete")
  ELSE Out(Splice(mandatesStore, index), activeMandateId, idSeq, 200, "handleDelete")

handleDelete(r) ==
  LET index == FindIndex(mandatesStore, r.queryId) IN
  IF index = 0 THEN Out(mandatesStore, activeMandateId, idSeq, 404, "handleDelete")
  ELSE
    LET store == Splice(mandatesStore, index)
        active == IF activeMandateId = r.queryId
                  THEN (IF Len(store) > 0 THEN store[1].id ELSE Null)
                  ELSE activeMandateId
    IN Out(store, active, idSeq, 200, "handleDelete")

handleSetActive(r) ==
  IF ~r.body.present THEN Throw("handleSetActive")
  ELSE IF FindIndex(mandatesStore, r.body.mandateId) = 0
  THEN Out(mandatesStore, activeMandateId, idSeq, 404, "handleSetActive")
  ELSE Out(mandatesStore, r.body.mandateId, idSeq, 200, "handleSetActive")

\* path.startsWith('/api/mandates')
StartsWithMandates(p) == Len(p) >= 2 /\ SubSeq(p, 1, 2) = PathRoot

\* the route table with POST matched by prefix: set-active is shadowed by create
routePostByPrefix(r) ==
  IF r.method = "GET" /\ r.path = PathRoot THEN handleList(r)
  ELSE IF r.method = "POST" /\ StartsWithMandates(r.path) THEN handleCreate(r)
  ELSE IF r.method = "PATCH" /\ StartsWithMandatesSlash(r.path) THEN handleUpdate(r)
  ELSE IF r.method = "DELETE" /\ StartsWithMandatesSlash(r.path) THEN handleDelete(r)
  ELSE IF r.method = "POST" /\ r.path = PathSetActive THEN handleSetActive(r)
  ELSE Out(mandatesStore, activeMandateId, idSeq, 405, "none")

\* the try block of handler: the route table
route(r) ==
  IF r.method = "GET" /\ r.path = PathRoot THEN handleList(r)
  ELSE IF r.method = "POST" /\ r.path = PathRoot THEN handleCreate(r)
  ELSE IF r.method = "PATCH" /\ StartsWithMandatesSlash(r.path) THEN handleUpdate(r)
  ELSE IF r.method = "DELETE" /\ StartsWithMandatesSlash(r.path) THEN handleDelete(r)
  ELSE IF r.method = "POST" /\ r.path = PathSetActive THEN handleSetActive(r)
  ELSE Out(mandatesStore, activeMandateId, idSeq, 405, "none")

\* export default handler: OPTIONS first, then the route table; whatever a
\* handler throws is answered 500
handler(r) ==
  IF r.method = "OPTIONS"
  THEN Out(mandatesStore, activeMandateId, idSeq, 200, "options")
  ELSE LET out == route(r) IN
       IF out.threw THEN [out EXCEPT !.status = 500] ELSE out

MandatesInit ==
  /\ mandatesStore = <<>>
  /\ activeMandateId = Null
  /\ idSeq = 0
  /\ mpc = "idle"
  /\ mreq = NoRequest
  /\ mres = NoResponse
  /\ mprev = [store |-> <<>>, active |-> Null]

\* a request arrives; at most MaxIds create requests are sent
MandatesReceive ==
  /\ mpc = "idle"
  /\ \E r \in Requests :
       /\ (r.method = "POST" /\ r.path = PathRoot) => idSeq < MaxIds
       /\ mreq' = r
  /\ mpc' = "handling"
  /\ UNCHANGED <<mandatesStore, activeMandateId, idSeq, mres, mprev>>
  /\ UNCHANGED <<endpointVars, serviceVars, appVars>>

\* handler(req, res) runs to completion
MandatesHandle ==
  /\ mpc = "handling"
  /\ LET out == handler(mreq) IN
       /\ mandatesStore' = out.store
       /\ activeMandateId' = out.active
       /\ idSeq' = out.ids
       /\ mres' = [status |-> out.status, handler |-> out.handler]
  /\ mprev' = [store |-> mandatesStore, active |-> activeMandateId]
  /\ mpc' = "responded"
  /\ UNCHANGED mreq
  /\ UNCHANGED <<endpointVars, serviceVars, appVars>>

\* the response has been delivered
MandatesDeliver ==
  /\ mpc = "responded"
  /\ mpc' = "idle"
  /\ mreq' = NoRequest
  /\ mres' = NoResponse
  /\ mprev' = [store |-> <<>>, active |-> Null]
  /\ UNCHANGED <<mandatesStore, activeMandateId, idSeq>>
  /\ UNCHANGED <<endpointVars, serviceVars, appVars>>

\* ------------------------------------------------- properties, api/mandates.ts
StoreIds(store) == {store[i].id : i \in 1..Len(store)}
MandatesUnchanged == mandatesStore = mprev.store /\ activeMandateId = mprev.active

IsCreateRequest(r) == r.method = "POST" /\ r.path = PathRoot
IsUpdateRequest(r) == r.method = "PATCH" /\ StartsWithMandatesSlash(r.path)
IsDeleteRequest(r) == r.method = "DELETE" /\ StartsWithMandatesSlash(r.path)
IsSetActiveRequest(r) == r.method = "POST" /\ r.path = PathSetActive
IsListRequest(r) == r.method = "GET" /\ r.path = PathRoot

\* name or innovationTopic is missing (no body at all included) or empty
CreateFieldsMissing(r) ==
  \/ ~r.body.present
  \/ r.body.name \in {Undef, ""}
  \/ r.body.innovationTopic \in {Undef, ""}

\* exactly one mandate appended, with a fresh id and no refinement rules
CreatedOne ==
  /\ Len(mandatesStore) = Len(mprev.store) + 1
  /\ SubSeq(mandatesStore, 1, Len(mprev.store)) = mprev.store
  /\ mandatesStore[Len(mandatesStore)].id \notin StoreIds(mprev.store)
  /\ mandatesStore[Len(mandatesStore)].refinementRules = <<>>
  /\ mandatesStore[Len(mandatesStore)].name = mreq.body.name
  /\ mandatesStore[Len(mandatesStore)].innovationTopic = mreq.body.innovationTopic

\* C4: a create request whose name or innovationTopic is missing or empty is
\* answered 400 and leaves the store and activeMandateId unchanged; one with
\* both present appends exactly one mandate with a fresh id and empty
\* refinementRules and is answered 201.
C4_CreateValidated ==
  (mpc = "responded" /\ IsCreateRequest(mreq)) =>
    IF CreateFieldsMissing(mreq)
    THEN mres.status = 400 /\ MandatesUnchanged
    ELSE mres.status = 201 /\ CreatedOne

\* C4 restricted to requests that carry a body: what the code does guarantee
C4_CreateValidatedWithBody ==
  (mpc = "responded" /\ IsCreateRequest(mreq) /\ mreq.body.present) =>
    IF CreateFieldsMissing(mreq)
    THEN mres.status = 400 /\ MandatesUnchanged
    ELSE mres.status = 201 /\ CreatedOne

NamesAbsentId(r) ==
  \/ (IsUpdateRequest(r) \/ IsDeleteRequest(r))
       /\ r.queryId # Undef /\ r.queryId \notin StoreIds(mprev.store)
  \/ IsSetActiveRequest(r) /\ r.body.present
       /\ r.body.mandateId # Undef /\ r.body.mandateId \notin StoreIds(mprev.store)

\* C6: an update, delete or set-active request that names an id not in the
\* store is answered 404 and leaves the store and activeMandateId unchanged.
C6_UnknownIdIs404 ==
  (mpc = "responded" /\ NamesAbsentId(mreq)) =>
    mres.status = 404 /\ MandatesUnchanged

\* C6 restricted to requests that carry a body: what the code does guarantee
C6_UnknownIdIs404WithBody ==
  (mpc = "responded" /\ NamesAbsentId(mreq) /\ mreq.body.present) =>
    mres.status = 404 /\ MandatesUnchanged

\* C7: dispatch by method and path. GET /api/mandates lists, POST /api/mandates
\* creates, PATCH and DELETE /api/mandates/<id> update and delete, POST
\* /api/mandates/set-active sets the active mandate and is never a create,
\* OPTIONS is answered 200 without touching the store, anything else is
\* answered 405 and leaves the store and activeMandateId unchanged.
C7_Dispatch ==
  mpc = "responded" =>
    IF mreq.method = "OPTIONS"
      THEN mres.status = 200 /\ mres.handler = "options" /\ MandatesUnchanged
    ELSE IF IsListRequest(mreq)
      THEN mres.handler = "handleList" /\ mres.status = 200 /\ MandatesUnchanged
    ELSE IF IsCreateRequest(mreq) THEN mres.handler = "handleCreate"
    ELSE IF IsUpdateRequest(mreq) THEN mres.handler = "handleUpdate"
    ELSE IF IsDeleteRequest(mreq) THEN mres.handler = "handleDelete"
    ELSE IF IsSetActiveRequest(mreq)
      THEN /\ mres.handler = "handleSetActive"
           /\ mandatesStore = mprev.store
           /\ mres.status = 200 => activeMandateId = mreq.body.mandateId
    ELSE mres.status = 405 /\ mres.handler = "none" /\ MandatesUnchanged

\* set-active switched the active mandate of a store of two
C7_Witness ==
  /\ mpc = "responded" /\ IsSetActiveRequest(mreq) /\ mres.status = 200
  /\ Len(mandatesStore) = 2
  /\ activeMandateId # mprev.active


MandatesNext == MandatesReceive \/ MandatesHandle \/ MandatesDeliver

\* ============================= api/gemini-search.ts, api/find-startups.ts,
\* ============================= gemini-evaluate, generate-mandate-name
\* A JS string is the sequence of its characters
Chars == {"q", "Q", " ", "x"}
IsSpace(c) == c = " "
LowerChar(c) == IF c = "Q" THEN "q" ELSE c

RECURSIVE TrimStart(_)
TrimStart(str) ==
  IF str # <<>> /\ IsSpace(Head(str)) THEN TrimStart(Tail(str)) ELSE str

RECURSIVE TrimEnd(_)
TrimEnd(str) ==
  IF str # <<>> /\ IsSpace(str[Len(str)])
  THEN TrimEnd(SubSeq(str, 1, Len(str) - 1)) ELSE str

\* String.prototype.trim
Trim(str) == TrimEnd(TrimStart(str))
\* String.prototype.toLowerCase
ToLowerCase(str) == [i \in 1..Len(str) |-> LowerChar(str[i])]

\* a body field: undefined, a string, or a value that is no string (a number)
JUndef == [t |-> "undefined", v |-> <<>>]
JNum == [t |-> "number", v |-> <<>>]
JStr(str) == [t |-> "string", v |-> str]
\* !x for such a value: undefined and "" are falsy (the number is not 0)
Falsy(x) == x.t = "undefined" \/ (x.t = "string" /\ x.v = <<>>)

Endpoints == {"search", "findStartups", "evaluate", "name"}
EMethods == {"GET", "POST", "PUT"}

QueryValues ==
  {JUndef, JNum, JStr(<<>>), JStr(<<" ">>), JStr(<<"q">>), JStr(<<" ", "Q">>)}
\* topic.substring(0, 50)
NameLimit == 50
LongTopic == [i \in 1..NameLimit + 1 |-> "x"]
TopicValues == {JUndef, JNum, JStr(<<>>), JStr(<<"x">>), JStr(LongTopic)}

ENoBody == [present |-> FALSE, query |-> JUndef, candidate |-> FALSE, topic |-> JUndef]
EBodies ==
  {ENoBody}
  \cup [present : {TRUE}, query : QueryValues, candidate : BOOLEAN, topic : TopicValues]

ERequests == [endpoint : Endpoints, method : EMethods, body : EBodies]
ENoRequest == [endpoint |-> "search", method |-> "GET", body |-> ENoBody]
ENoResponse == [status |-> 0, name |-> JUndef]

\* the handler answers now (call = "none") or awaits the model API (status 0)
Answer(status) == [status |-> status, call |-> "none"]
AwaitModel(prompt) == [status |-> 0, call |-> prompt]

\* !query || !query.trim(), which throws for a truthy value without trim()
QueryCheck(q) ==
  IF Falsy(q) THEN "missing"
  ELSE IF q.t # "string" THEN "throws"
  ELSE IF Trim(q.v) = <<>> THEN "missing"
  ELSE "ok"

\* api/gemini-search.ts handler, up to the first await
searchEntry(r) ==
  IF r.method # "POST" THEN Answer(405)
  ELSE IF ~r.body.present THEN Answer(500)
  ELSE IF QueryCheck(r.body.query) = "throws" THEN Answer(500)
  ELSE IF QueryCheck(r.body.query) = "missing" THEN Answer(400)
  ELSE IF ~apiKeySet THEN Answer(500)
  ELSE AwaitModel("first")

\* api/find-startups.ts handler (the version that validates the query); its
\* findStartups is the local stub and sends nothing to the model API
findStartupsEntry(r) ==
  IF r.method # "POST" THEN Answer(405)
  ELSE IF ~r.body.present THEN Answer(500)
  ELSE IF QueryCheck(r.body.query) = "throws" THEN Answer(500)
  ELSE IF QueryCheck(r.body.query) = "missing" THEN Answer(400)
  ELSE Answer(200)

\* gemini-evaluate handler, up to the first await
evaluateEntry(r) ==
  IF r.method # "POST" THEN Answer(405)
  ELSE IF ~r.body.present \/ ~r.body.candidate THEN Answer(400)
  ELSE IF ~apiKeySet THEN Answer(500)
  ELSE AwaitModel("evaluate")

\* generate-mandate-name handler, up to the fetch; the destructuring of
\* req.body is outside the try block, so without a body the function fails
nameEntryAnyMethod(r) ==
  IF ~r.body.present THEN Answer(500)
  ELSE IF Falsy(r.body.topic) \/ r.body.topic.t # "string" THEN Answer(400)
  ELSE IF ~apiKeySet THEN Answer(500)
  ELSE AwaitModel("name")
nameEntry(r) ==
  IF r.method # "POST" THEN Answer(405)
  ELSE IF ~r.body.present THEN Answer(500)
  ELSE IF Falsy(r.body.topic) \/ r.body.topic.t # "string" THEN Answer(400)
  ELSE IF ~apiKeySet THEN Answer(500)
  ELSE AwaitModel("name")

entry(r) ==
  CASE r.endpoint = "search" -> searchEntry(r)
    [] r.endpoint = "findStartups" -> findStartupsEntry(r)
    [] r.endpoint = "evaluate" -> evaluateEntry(r)
    [] r.endpoint = "name" -> nameEntry(r)

\* what the model API can answer to gemini-search: a list of startups, each
\* with a name (a string, or no string at all)
CandidateNames == {JUndef, JStr(<<"q">>), JStr(<<"Q", " ">>), JStr(<<"x">>)}
CandidateLists == {<<>>} \cup {<<n>> : n \in CandidateNames}
                  \cup {<<n1, n2>> : n1 \in CandidateNames, n2 \in {JStr(<<"x">>)}}

\* list.some(c => typeof c.name === "string" &&
\*                c.name.trim().toLowerCase() === query.trim().toLowerCase())
HasExactUntrimmed(list, query) ==
  \E i \in 1..Len(list) :
    /\ list[i].t = "string"
    /\ ToLowerCase(list[i].v) = ToLowerCase(query)
HasExact(list, query) ==
  \E i \in 1..Len(list) :
    /\ list[i].t = "string"
    /\ ToLowerCase(Trim(list[i].v)) = ToLowerCase(Trim(query))

\* (c.url || c.name || "").toLowerCase(), for candidates without a url
KeyOf(c) == IF c.t = "string" THEN ToLowerCase(c.v) ELSE <<>>

\* merged.filter: drop candidates without a key and later duplicates of a key
RECURSIVE DedupeFrom(_, _)
DedupeFrom(list, seen) ==
  IF list = <<>> THEN <<>>
  ELSE IF KeyOf(Head(list)) = <<>> \/ KeyOf(Head(list)) \in seen
       THEN DedupeFrom(Tail(list), seen)
       ELSE <<Head(list)>> \o DedupeFrom(Tail(list), seen \cup {KeyOf(Head(list))})

Merge(retryList, list) == DedupeFrom(retryList \o list, {})

EndpointsIdle ==
  /\ apiKeySet = TRUE
  /\ epc = "idle"
  /\ ereq = ENoRequest
  /\ eres = ENoResponse
  /\ apiCalls = <<>>
  /\ elist = <<>>

EndpointsInit ==
  /\ apiKeySet \in BOOLEAN
  /\ epc = "idle"
  /\ ereq = ENoRequest
  /\ eres = ENoResponse
  /\ apiCalls = <<>>
  /\ elist = <<>>

EndpointReceive ==
  /\ epc = "idle"
  /\ ereq' \in ERequests
  /\ epc' = "start"
  /\ UNCHANGED <<apiKeySet, eres, apiCalls, elist>>
  /\ UNCHANGED <<mandateVars, serviceVars, appVars>>

\* the handler runs until it answers or awaits the model API
EndpointStart ==
  /\ epc = "start"
  /\ LET e == entry(ereq) IN
       IF e.call = "none"
       THEN /\ eres' = [status |-> e.status, name |-> JUndef]
            /\ epc' = "responded"
            /\ UNCHANGED apiCalls
       ELSE /\ apiCalls' = Append(apiCalls, e.call)
            /\ epc' = "await1"
            /\ UNCHANGED eres
  /\ UNCHANGED <<apiKeySet, ereq, elist>>
  /\ UNCHANGED <<mandateVars, serviceVars, appVars>>

\* gemini-search: the first pass comes back (a rejected call, a JSON null, or
\* a list; text that does not parse counts as the empty list)
SearchFirstReply ==
  /\ epc = "await1" /\ ereq.endpoint = "search"
  /\ \/ /\ eres' = [status |-> 500, name |-> JUndef]
        /\ epc' = "responded"
        /\ UNCHANGED <<apiCalls, elist>>
     \/ \E list \in CandidateLists :
          /\ elist' = list
          /\ IF HasExact(list, ereq.body.query.v)
             THEN /\ eres' = [status |-> 200, name |-> JUndef]
                  /\ epc' = "responded"
                  /\ UNCHANGED apiCalls
             ELSE /\ apiCalls' = Append(apiCalls, "retry")
                  /\ epc' = "await2"
                  /\ UNCHANGED eres
  /\ UNCHANGED <<apiKeySet, ereq>>
  /\ UNCHANGED <<mandateVars, serviceVars, appVars>>

\* gemini-search: the retry comes back (rejected, or a list that is merged in;
\* text that does not parse keeps the first list)
SearchRetryReply ==
  /\ epc = "await2" /\ ereq.endpoint = "search"
  /\ \/ /\ eres' = [status |-> 500, name |-> JUndef]
        /\ UNCHANGED elist
     \/ /\ eres' = [status |-> 200, name |-> JUndef]
        /\ \E retryList \in CandidateLists : elist' = Merge(retryList, elist)
     \/ /\ eres' = [status |-> 200, name |-> JUndef]
        /\ UNCHANGED elist
  /\ epc' = "responded"
  /\ UNCHANGED <<apiKeySet, ereq, apiCalls>>
  /\ UNCHANGED <<mandateVars, serviceVars, appVars>>

\* gemini-evaluate: the model call comes back (rejected or unparsable: 500)
EvaluateReply ==
  /\ epc = "await1" /\ ereq.endpoint = "evaluate"
  /\ \E status \in {200, 500} : eres' = [status |-> status, name |-> JUndef]
  /\ epc' = "responded"
  /\ UNCHANGED <<apiKeySet, ereq, apiCalls, elist>>
  /\ UNCHANGED <<mandateVars, serviceVars, appVars>>

\* String.prototype.substring(from, to) for 0 <= from <= to
Substring(str, from, to) ==
  SubSeq(str, from + 1, IF to < Len(str) THEN to ELSE Len(str))

\* data.candidates?.[0]?.content?.parts?.[0]?.text of an ok reply
NameTexts == {JUndef, JStr(<<>>), JStr(<<" ">>), JStr(<<"q">>), JStr(<<" ", "Q">>)}

\* the name answered for an ok reply: the trimmed text, or the truncated topic
\* when there is none
nameFromReplyUntruncated(topic, text) ==
  LET generatedName == IF text.t = "string" THEN Trim(text.v) ELSE <<>>
  IN IF generatedName = <<>> THEN topic ELSE generatedName
nameFromReply(topic, text) ==
  LET generatedName == IF text.t = "string" THEN Trim(text.v) ELSE <<>>
  IN IF generatedName = <<>> THEN Substring(topic, 0, NameLimit) ELSE generatedName

\* generate-mandate-name: the fetch comes back: it threw, was not ok or had a
\* body that is no JSON (500), or was ok with or without a text part
NameReply ==
  /\ epc = "await1" /\ ereq.endpoint = "name"
  /\ \/ /\ eres' = [status |-> 500, name |-> JUndef]
        /\ UNCHANGED elist
     \/ \E text \in NameTexts :
          /\ elist' = <<text>>
          /\ eres' = [status |-> 200,
                      name |-> JStr(nameFromReply(ereq.body.topic.v, text))]
  /\ epc' = "responded"
  /\ UNCHANGED <<apiKeySet, ereq, apiCalls>>
  /\ UNCHANGED <<mandateVars, serviceVars, appVars>>

EndpointDeliver ==
  /\ epc = "responded"
  /\ epc' = "idle"
  /\ ereq' = ENoRequest
  /\ eres' = ENoResponse
  /\ apiCalls' = <<>>
  /\ elist' = <<>>
  /\ UNCHANGED apiKeySet
  /\ UNCHANGED <<mandateVars, serviceVars, appVars>>

EndpointsNext ==
  \/ EndpointReceive
  \/ EndpointStart
  \/ SearchFirstReply
  \/ SearchRetryReply
  \/ EvaluateReply
  \/ NameReply
  \/ EndpointDeliver

\* ============================================ src/services/geminiService.ts
ServiceCalls == {"findStartups", "evaluateStartup", "generateClarificationQuestions"}
\* findStartups and evaluateStartup catch a failed attempt and try a second prompt
HasFallback(call) == call \in {"findStartups", "evaluateStartup"}

\* questions.slice(0, 3)
SliceEnd == 3
\* the built-in questions returned after a failure
DefaultQuestions == 3
\* the longest list of questions the model API is taken to return
MaxModelQuestions == 4
Min(a, b) == IF a <= b THEN a ELSE b
ErrorKinds == {"auth", "other"}

\* a request to the model API: the prompt, and the file part when there is one
Request(prompt, file) == [prompt |-> prompt, file |-> file]

\* isAuthError(error)
isAuthError(e) == e = "auth"

\* executeGenAI's catch: the request is repeated after a key selection when
\* the error is an auth error and AI Studio's key selector exists
RetriesAfter(e) == isAuthError(e) /\ aistudio

\* the catch of the first try block of findStartups / evaluateStartup: auth
\* errors bubble up, every other error leads to the fallback prompt
FallsBackAlways(e) == TRUE
FallsBack(e) == ~isAuthError(e)

\* what a fulfilled request carries: no text (or "{}"), text that JSON.parse
\* rejects, or a JSON document
TextKinds == {"empty", "invalid", "json"}

\* what findStartups / evaluateStartup make of a fulfilled request: "ok", or
\* the kind of the error thrown while processing it. The base attempt of
\* findStartups throws Error("Empty search result") on empty text; JSON.parse
\* throws a SyntaxError whose message quotes the text, so isAuthError may
\* match it or not.
ProcessOutcomes(call, attempt, text) ==
  CASE text = "json" -> {"ok"}
    [] text = "invalid" -> ErrorKinds
    [] text = "empty" ->
         IF call = "findStartups" /\ attempt = "base" THEN {"other"} ELSE {"ok"}

\* generateClarificationQuestions: the length of JSON.parse(result.text ||
\* "[]").slice(0, 3) when the text holds n questions
QuestionsReturned(text, n) == IF text = "empty" THEN 0 ELSE Min(n, SliceEnd)

ServiceIdle ==
  /\ sfallbackErr = "none"
  /\ sfile = FALSE
  /\ svalue = 0
  /\ aistudio = FALSE
  /\ spc = "idle"
  /\ scall = "findStartups"
  /\ sattempt = "base"
  /\ stry = "first"
  /\ sreqs = <<>>
  /\ sbaseErr = "none"
  /\ sresult = "pending"

ServiceInit ==
  /\ sfallbackErr = "none"
  /\ sfile = FALSE
  /\ svalue = 0
  /\ aistudio \in BOOLEAN
  /\ spc = "idle"
  /\ scall = "findStartups"
  /\ sattempt = "base"
  /\ stry = "first"
  /\ sreqs = <<>>
  /\ sbaseErr = "none"
  /\ sresult = "pending"

\* the current attempt has failed with error e: the catch blocks of
\* findStartups / evaluateStartup
AttemptFailed(e) ==
  IF ~HasFallback(scall)
  \* generateClarificationQuestions: auth errors bubble up, anything else
  \* yields the built-in questions
  THEN /\ sbaseErr' = e
       /\ sresult' = IF isAuthError(e) THEN "rejected" ELSE "resolved"
       /\ svalue' = IF isAuthError(e) THEN 0 ELSE DefaultQuestions
       /\ spc' = "done"
       /\ UNCHANGED <<sattempt, stry, sreqs, sfallbackErr>>
  ELSE IF sattempt = "base"
  THEN /\ sbaseErr' = e
       /\ IF FallsBack(e)
          THEN /\ sattempt' = "fallback"
               /\ stry' = "first"
               /\ sreqs' = Append(sreqs, Request("fallback", sfile))
               /\ spc' = "request"
               /\ UNCHANGED <<sresult, svalue, sfallbackErr>>
          ELSE /\ sresult' = "rejected"
               /\ spc' = "done"
               /\ UNCHANGED <<sattempt, stry, sreqs, svalue, sfallbackErr>>
  ELSE /\ sfallbackErr' = e
       /\ sresult' = "rejected"
       /\ spc' = "done"
       /\ UNCHANGED <<sattempt, stry, sreqs, sbaseErr, svalue>>

\* findStartups(query) / evaluateStartup(...) is called: the base prompt is sent
ServiceCall ==
  /\ spc = "idle"
  /\ scall' \in ServiceCalls
  /\ sfile' \in (IF scall' = "evaluateStartup" THEN BOOLEAN ELSE {FALSE})
  /\ sattempt' = "base"
  /\ stry' = "first"
  /\ sreqs' = <<Request("base", sfile')>>
  /\ sbaseErr' = "none"
  /\ sfallbackErr' = "none"
  /\ sresult' = "pending"
  /\ svalue' = 0
  /\ spc' = "request"
  /\ UNCHANGED aistudio
  /\ UNCHANGED <<mandateVars, endpointVars, appVars>>

\* the request in flight is rejected by the model API
ServiceRequestFails ==
  /\ spc = "request"
  /\ \E e \in ErrorKinds :
       IF stry = "first"
       THEN IF RetriesAfter(e)
            THEN /\ spc' = "selectKey"
                 /\ UNCHANGED <<sattempt, stry, sreqs, sbaseErr, sfallbackErr, sresult,
                                svalue>>
            ELSE AttemptFailed(e)
       \* the retry failed: executeGenAI throws the original (auth) error
       ELSE AttemptFailed("auth")
  /\ UNCHANGED <<aistudio, scall, sfile>>
  /\ UNCHANGED <<mandateVars, endpointVars, appVars>>

\* aistudio.openSelectKey() settles: the request is sent again with the same
\* prompt, or the selection failed and the original (auth) error is thrown
ServiceKeySelected ==
  /\ spc = "selectKey"
  /\ \/ /\ sreqs' = Append(sreqs, Request(sattempt, sfile))
        /\ stry' = "again"
        /\ spc' = "request"
        /\ UNCHANGED <<sattempt, sbaseErr, sfallbackErr, sresult, svalue>>
     \/ AttemptFailed("auth")
  /\ UNCHANGED <<aistudio, scall, sfile>>
  /\ UNCHANGED <<mandateVars, endpointVars, appVars>>

\* the request in flight is fulfilled and its text is processed
ServiceRequestFulfilled ==
  /\ spc = "request"
  /\ \E text \in TextKinds : \E o \in ProcessOutcomes(scall, sattempt, text) :
       IF o = "ok"
       THEN /\ sresult' = "resolved"
            /\ \E n \in 0..MaxModelQuestions :
                 svalue' = IF HasFallback(scall) THEN 0 ELSE QuestionsReturned(text, n)
            /\ spc' = "done"
            /\ UNCHANGED <<sattempt, stry, sreqs, sbaseErr, sfallbackErr>>
       ELSE AttemptFailed(o)
  /\ UNCHANGED <<aistudio, scall, sfile>>
  /\ UNCHANGED <<mandateVars, endpointVars, appVars>>

\* the caller has the result; the next call may start
ServiceReturn ==
  /\ spc = "done"
  /\ spc' = "idle"
  /\ sreqs' = <<>>
  /\ sbaseErr' = "none"
  /\ sfallbackErr' = "none"
  /\ sresult' = "pending"
  /\ svalue' = 0
  /\ sattempt' = "base"
  /\ stry' = "first"
  /\ UNCHANGED <<aistudio, scall, sfile>>
  /\ UNCHANGED <<mandateVars, endpointVars, appVars>>

ServiceNext ==
  \/ ServiceCall
  \/ ServiceRequestFails
  \/ ServiceKeySelected
  \/ ServiceRequestFulfilled
  \/ ServiceReturn

\* ================================ src/App.tsx, components/ClarificationWizard.tsx
\* The single-page client: onboarding (the topic), clarification (the wizard),
\* evaluation (the dashboard).  A step is one event handler or one completion of
\* an awaited request, followed by the render and the effects it triggers.

MaxRules == 2      \* refinement rules appended per mandate
MaxEvals == 2      \* evaluations listed or in flight
MaxPending == 2    \* requests in flight at once

Topics == {<<>>, <<" ">>, <<"x">>}
SearchInputs == {<<>>, <<" ">>, <<"q">>}
FileBaseNames == {<<>>, <<"x">>}
Feedbacks == {"r1", "r2"}
AnswerTexts == {"", "a"}
SkipText == "Not applicable / No strict preference"
DefaultAnswerText == "No specific preference."
CandidateSets == {<<>>, <<<<"q">>>>, <<<<"q">>, <<"x">>>>}

\* useState<AppState>(...), App.tsx 10-17, and the object handleResetMandate sets
InitialState ==
  [phase |-> "onboarding", innovationTopic |-> <<>>, clarificationQuestions |-> <<>>,
   clarificationAnswers |-> <<>>, evaluations |-> <<>>, refinementRules |-> <<>>]

\* ---- the placeholder clarificationService the wizard imports
QuestionIds == <<"1", "2", "3">>
QuestionCategories == <<"Strategic", "Operational", "Market">>
DefaultTopic == <<"q">>     \* "your innovation topic"
generateClarificationQuestions(topic) ==
  LET trimmed == IF Trim(topic) = <<>> THEN DefaultTopic ELSE Trim(topic)
  IN [i \in 1..3 |->
        [id |-> QuestionIds[i], text |-> <<QuestionIds[i]>> \o trimmed,
         category |-> QuestionCategories[i]]]

\* ---- ClarificationWizard: answers is a Record<string, string>, a missing key
\* reads as undefined, which `||` treats like ""
NoAnswers == [q \in {"1", "2", "3"} |-> ""]
NoWizard ==
  [mounted |-> FALSE, loading |-> TRUE, questions |-> <<>>, currentStep |-> 0,
   answers |-> NoAnswers]
NewWizard == [NoWizard EXCEPT !.mounted = TRUE]

\* questions.map(q => ({questionId, questionText, answerText: answers[q.id] || ...}))
FinalAnswers(questions, answers) ==
  [i \in 1..Len(questions) |->
     [questionId |-> questions[i].id, questionText |-> questions[i].text,
      answerText |-> IF answers[questions[i].id] = "" THEN DefaultAnswerText
                     ELSE answers[questions[i].id]]]

\* ---- localStorage 'innoscout_brief': absent, text that is no JSON, or the JSON
\* text of an object (hasRules: the object has a refinementRules that is not null)
NoItem ==
  [kind |-> "none", innovationTopic |-> <<>>, clarificationAnswers |-> <<>>,
   refinementRules |-> <<>>, hasRules |-> FALSE]
Corrupt == [NoItem EXCEPT !.kind = "corrupt"]
\* JSON.stringify({innovationTopic, clarificationAnswers, refinementRules})
Stringify(st) ==
  [kind |-> "json", innovationTopic |-> st.innovationTopic,
   clarificationAnswers |-> st.clarificationAnswers,
   refinementRules |-> st.refinementRules, hasRules |-> TRUE]

\* the load effect: getItem, JSON.parse in try/catch, the guard, setState
LoadBrief(prev, saved) ==
  IF saved.kind = "json" /\ saved.innovationTopic # <<>>
     /\ Len(saved.clarificationAnswers) > 0
  THEN [prev EXCEPT !.phase = "evaluation",
                    !.innovationTopic = saved.innovationTopic,
                    !.clarificationAnswers = saved.clarificationAnswers,
                    !.refinementRules =
                       IF saved.hasRules THEN saved.refinementRules ELSE <<>>]
  ELSE prev

\* the body of the save effect
SaveBriefWithoutRules(st, sto) ==
  IF st.phase = "evaluation"
  THEN [Stringify(st) EXCEPT !.refinementRules = <<>>]
  ELSE sto
SaveBrief(st, sto) ==
  IF st.phase = "evaluation" THEN Stringify(st) ELSE sto

\* the dependency array of the save effect
DepsChanged(old, new) ==
  \/ old.innovationTopic # new.innovationTopic
  \/ old.clarificationAnswers # new.clarificationAnswers
  \/ old.refinementRules # new.refinementRules
  \/ old.phase # new.phase

\* the storage after the render that follows setState(old -> new)
AfterRender(old, new, sto) ==
  IF DepsChanged(old, new) THEN SaveBrief(new, sto) ELSE sto

\* mounting the App over a storage: the first render runs both effects (the save
\* effect sees the initial state), the load effect's setState renders again
Mount(sto) ==
  LET first == SaveBrief(InitialState, sto)
      loaded == LoadBrief(InitialState, first)
  IN [state |-> loaded, storage |-> AfterRender(InitialState, loaded, first)]

\* ---- the handlers of App.tsx, as functions of the state they read
startClarificationUnguarded(st) == [st EXCEPT !.phase = "clarification"]
startClarification(st) ==
  IF Trim(st.innovationTopic) = <<>> THEN st
  ELSE [st EXCEPT !.phase = "clarification"]

handleClarificationComplete(st, answers) ==
  [st EXCEPT !.clarificationAnswers = answers, !.phase = "evaluation"]

handleRefinePrepend(st, feedback) ==
  [st EXCEPT !.refinementRules = <<feedback>> \o st.refinementRules]
handleRefine(st, feedback) ==
  [st EXCEPT !.refinementRules = Append(st.refinementRules, feedback)]

handleResetMandateKeepsBrief(st, sto, confirmed) ==
  IF confirmed
  THEN [state |-> InitialState, storage |-> AfterRender(st, InitialState, sto)]
  ELSE [state |-> st, storage |-> sto]
handleResetMandate(st, sto, confirmed) ==
  IF confirmed
  THEN [state |-> InitialState, storage |-> AfterRender(st, InitialState, NoItem)]
  ELSE [state |-> st, storage |-> sto]

\* setState(prev => ({...prev, evaluations: [result, ...prev.evaluations]}))
AddEvaluationAtEnd(st, result) ==
  [st EXCEPT !.evaluations = Append(st.evaluations, result)]
AddEvaluation(st, result) ==
  [st EXCEPT !.evaluations = <<result>> \o st.evaluations]

\* ---- what localStorage can hold when the page is opened
SavedAnswers == {<<>>, FinalAnswers(generateClarificationQuestions(<<"x">>), NoAnswers)}
InitialStorages ==
  {NoItem, Corrupt}
  \cup [kind : {"json"}, innovationTopic : {<<>>, <<"x">>},
        clarificationAnswers : SavedAnswers, refinementRules : {<<>>},
        hasRules : BOOLEAN]
  \cup [kind : {"json"}, innovationTopic : {<<>>, <<"x">>},
        clarificationAnswers : SavedAnswers, refinementRules : {<<"r1">>},
        hasRules : {TRUE}]

\* the transient parts of a freshly loaded page
FreshPage ==
  /\ searchInput = <<>>
  /\ searchStatus = "idle"
  /\ candidates = <<>>
  /\ selectedFile = FALSE
  /\ wizard = NoWizard
  /\ pending = <<>>
  /\ alerted = "none"
  /\ op = "mount"

\* the App part while another part of the program is studied
AppIdle ==
  /\ state = InitialState
  /\ storage = NoItem
  /\ FreshPage

AppInit ==
  /\ \E sto \in InitialStorages :
       /\ state = Mount(sto).state
       /\ storage = Mount(sto).storage
  /\ FreshPage

Without(seq, i) == SubSeq(seq, 1, i - 1) \o SubSeq(seq, i + 1, Len(seq))
EvaluationsInFlight ==
  Cardinality({i \in 1..Len(pending) : pending[i].kind # "search"})
\* one more evaluation may be requested
MayEvaluate ==
  /\ Len(pending) < MaxPending
  /\ Len(state.evaluations) + EvaluationsInFlight < MaxEvals

\* evaluateStartup's refinementString: a header when there are rules, then
\* refinementHistory.map(r => `- ${r}`)
RuleLine(r) == <<"- ", r>>
refinementString(refinementHistory) ==
  [header |-> Len(refinementHistory) > 0,
   lines |-> [i \in 1..Len(refinementHistory) |-> RuleLine(refinementHistory[i])]]

\* the status handleAction and handleSelectStartup set before they await
StatusWhileRequestIdle(kind) == "idle"
StatusWhileRequest(kind) == IF kind = "search" THEN "searching" ELSE "evaluating"

\* the catch blocks of handleAction and handleSelectStartup: the status they set
StatusAfterFailureIdle(kind) == "idle"
StatusAfterFailure(kind) ==
  IF kind = "evaluateCandidate" THEN "selecting" ELSE "idle"

AppFrame == UNCHANGED <<mandateVars, endpointVars, serviceVars>>

\* the topic textarea (onboarding only)
SetTopic ==
  /\ state.phase = "onboarding"
  /\ \E t \in Topics : state' = [state EXCEPT !.innovationTopic = t]
  /\ storage' = AfterRender(state, state', storage)
  /\ op' = "setTopic"
  /\ alerted' = "none"
  /\ UNCHANGED <<searchInput, searchStatus, candidates, selectedFile, wizard, pending>>
  /\ AppFrame

\* the button, disabled while the topic is "", runs startClarification; entering
\* 'clarification' mounts the wizard, which starts fetching the questions
StartClarification ==
  /\ state.phase = "onboarding"
  /\ state.innovationTopic # <<>>
  /\ state' = startClarification(state)
  /\ wizard' = IF state'.phase = "clarification" THEN NewWizard ELSE wizard
  /\ storage' = AfterRender(state, state', storage)
  /\ op' = "startClarification"
  /\ alerted' = "none"
  /\ UNCHANGED <<searchInput, searchStatus, candidates, selectedFile, pending>>
  /\ AppFrame

\* the wizard's effect: the questions arrive while it is still mounted
WizardQuestions ==
  /\ wizard.mounted
  /\ wizard.loading
  /\ wizard' = [wizard EXCEPT
                  !.questions = generateClarificationQuestions(state.innovationTopic),
                  !.loading = FALSE]
  /\ op' = "wizardQuestions"
  /\ alerted' = "none"
  /\ UNCHANGED <<state, storage, searchInput, searchStatus, candidates, selectedFile,
                 pending>>
  /\ AppFrame

\* the answer textarea and the Skip button
WizardAnswer ==
  /\ wizard.mounted
  /\ ~wizard.loading
  /\ \E text \in AnswerTexts \cup {SkipText} :
       wizard' = [wizard EXCEPT
                    !.answers[wizard.questions[wizard.currentStep + 1].id] = text]
  /\ op' = "wizardAnswer"
  /\ alerted' = "none"
  /\ UNCHANGED <<state, storage, searchInput, searchStatus, candidates, selectedFile,
                 pending>>
  /\ AppFrame

\* handleNext: the next question, or onComplete = handleClarificationComplete,
\* after which the wizard is unmounted
WizardNext ==
  /\ wizard.mounted
  /\ ~wizard.loading
  /\ IF wizard.currentStep < Len(wizard.questions) - 1
     THEN /\ wizard' = [wizard EXCEPT !.currentStep = wizard.currentStep + 1]
          /\ op' = "handleNext"
          /\ UNCHANGED <<state, storage>>
     ELSE /\ state' = handleClarificationComplete(
                         state, FinalAnswers(wizard.questions, wizard.answers))
          /\ storage' = AfterRender(state, state', storage)
          /\ wizard' = NoWizard
          /\ op' = "handleClarificationComplete"
  /\ alerted' = "none"
  /\ UNCHANGED <<searchInput, searchStatus, candidates, selectedFile, pending>>
  /\ AppFrame

\* the search input of the dashboard
SetSearchInput ==
  /\ state.phase = "evaluation"
  /\ searchStatus = "idle"
  /\ \E v \in SearchInputs : searchInput' = v
  /\ op' = "setSearchInput"
  /\ alerted' = "none"
  /\ UNCHANGED <<state, storage, searchStatus, candidates, selectedFile, wizard, pending>>
  /\ AppFrame

\* handleFileSelect, once the reader has loaded the file
HandleFileSelect ==
  /\ state.phase = "evaluation"
  /\ searchStatus = "idle"
  /\ selectedFile' = TRUE
  /\ \E base \in FileBaseNames :
       searchInput' = IF searchInput = <<>> THEN base ELSE searchInput
  /\ op' = "handleFileSelect"
  /\ alerted' = "none"
  /\ UNCHANGED <<state, storage, searchStatus, candidates, wizard, pending>>
  /\ AppFrame

ClearFile ==
  /\ state.phase = "evaluation"
  /\ searchStatus = "idle"
  /\ selectedFile
  /\ selectedFile' = FALSE
  /\ op' = "clearFile"
  /\ alerted' = "none"
  /\ UNCHANGED <<state, storage, searchInput, searchStatus, candidates, wizard, pending>>
  /\ AppFrame

\* handleAction up to its await: nothing for a blank input, an evaluation of the
\* attached file, or a search by name
HandleAction ==
  /\ state.phase = "evaluation"
  /\ searchStatus = "idle"
  /\ IF Trim(searchInput) = <<>>
     THEN UNCHANGED <<searchStatus, pending>>
     ELSE IF selectedFile
     THEN /\ MayEvaluate
          /\ searchStatus' = StatusWhileRequest("evaluateFile")
          /\ pending' = Append(pending,
                          [kind |-> "evaluateFile", name |-> searchInput,
                           context |-> state.clarificationAnswers,
                           refinementHistory |-> state.refinementRules,
                           refinementString |->
                             refinementString(state.refinementRules)])
     ELSE /\ Len(pending) < MaxPending
          /\ searchStatus' = StatusWhileRequest("search")
          /\ pending' = Append(pending,
                          [kind |-> "search", name |-> searchInput,
                           context |-> <<>>, refinementHistory |-> <<>>,
                           refinementString |-> refinementString(<<>>)])
  /\ op' = "handleAction"
  /\ alerted' = "none"
  /\ UNCHANGED <<state, storage, searchInput, candidates, selectedFile, wizard>>
  /\ AppFrame

\* handleAction after await fetch('/api/gemini-search'): candidates to select from,
\* an alert for an empty list, an alert for a failed request
SearchReply ==
  /\ \E i \in 1..Len(pending) :
       /\ pending[i].kind = "search"
       /\ pending' = Without(pending, i)
       /\ \E ok \in BOOLEAN, startups \in CandidateSets :
            /\ IF ok /\ Len(startups) > 0
               THEN /\ candidates' = startups
                    /\ searchStatus' = "selecting"
                    /\ alerted' = "none"
               ELSE /\ candidates' = candidates
                    /\ searchStatus' =
                         IF ok THEN "idle" ELSE StatusAfterFailure("search")
                    /\ alerted' = IF ok THEN "No startups found" ELSE "Search Failed"
            /\ op' = IF ok THEN "searchReply" ELSE "searchFailed"
  /\ UNCHANGED <<state, storage, searchInput, selectedFile, wizard>>
  /\ AppFrame

\* handleAction after await evaluateStartup(manualCandidate, ..., file)
EvaluateFileReply ==
  /\ \E i \in 1..Len(pending) :
       /\ pending[i].kind = "evaluateFile"
       /\ pending' = Without(pending, i)
       /\ \E ok \in BOOLEAN :
            /\ IF ok
               THEN /\ state' = AddEvaluation(state, [startupName |-> pending[i].name])
                    /\ searchInput' = <<>>
                    /\ selectedFile' = FALSE
                    /\ alerted' = "none"
               ELSE /\ alerted' = "Evaluation Failed"
                    /\ UNCHANGED <<state, searchInput, selectedFile>>
            /\ searchStatus' = IF ok THEN "idle" ELSE StatusAfterFailure("evaluateFile")
            /\ op' = IF ok THEN "evaluateFileReply" ELSE "evaluateFileFailed"
  /\ storage' = AfterRender(state, state', storage)
  /\ UNCHANGED <<candidates, wizard>>
  /\ AppFrame

\* handleSelectStartup up to its await (the selector is shown while 'selecting')
HandleSelectStartup ==
  /\ state.phase = "evaluation"
  /\ searchStatus = "selecting"
  /\ MayEvaluate
  /\ \E c \in 1..Len(candidates) :
       pending' = Append(pending,
                    [kind |-> "evaluateCandidate", name |-> candidates[c],
                     context |-> state.clarificationAnswers,
                     refinementHistory |-> state.refinementRules,
                     refinementString |-> refinementString(state.refinementRules)])
  /\ searchStatus' = StatusWhileRequest("evaluateCandidate")
  /\ op' = "handleSelectStartup"
  /\ alerted' = "none"
  /\ UNCHANGED <<state, storage, searchInput, candidates, selectedFile, wizard>>
  /\ AppFrame

\* handleSelectStartup after await evaluateStartup(candidate, ...)
EvaluateCandidateReply ==
  /\ \E i \in 1..Len(pending) :
       /\ pending[i].kind = "evaluateCandidate"
       /\ pending' = Without(pending, i)
       /\ \E ok \in BOOLEAN :
            /\ IF ok
               THEN /\ state' = AddEvaluation(state, [startupName |-> pending[i].name])
                    /\ searchInput' = <<>>
                    /\ searchStatus' = "idle"
                    /\ candidates' = <<>>
                    /\ alerted' = "none"
               ELSE /\ alerted' = "Evaluation Failed"
                    /\ searchStatus' = StatusAfterFailure("evaluateCandidate")
                    /\ UNCHANGED <<state, searchInput, candidates>>
            /\ op' = IF ok THEN "evaluateCandidateReply" ELSE "evaluateCandidateFailed"
  /\ storage' = AfterRender(state, state', storage)
  /\ UNCHANGED <<selectedFile, wizard>>
  /\ AppFrame

\* the selector's onCancel
CancelSelect ==
  /\ state.phase = "evaluation"
  /\ searchStatus = "selecting"
  /\ searchStatus' = "idle"
  /\ candidates' = <<>>
  /\ op' = "cancelSelect"
  /\ alerted' = "none"
  /\ UNCHANGED <<state, storage, searchInput, selectedFile, wizard, pending>>
  /\ AppFrame

\* onRefine of an EvaluationCard (one card per listed evaluation)
HandleRefine ==
  /\ state.phase = "evaluation"
  /\ state.evaluations # <<>>
  /\ Len(state.refinementRules) < MaxRules
  /\ \E feedback \in Feedbacks : state' = handleRefine(state, feedback)
  /\ storage' = AfterRender(state, state', storage)
  /\ op' = "handleRefine"
  /\ alerted' = "none"
  /\ UNCHANGED <<searchInput, searchStatus, candidates, selectedFile, wizard, pending>>
  /\ AppFrame

\* the 'New Mandate' button (shown in 'evaluation'): window.confirm, then
\* handleResetMandate
HandleResetMandate ==
  /\ state.phase = "evaluation"
  /\ \E confirmed \in BOOLEAN :
       /\ state' = handleResetMandate(state, storage, confirmed).state
       /\ storage' = handleResetMandate(state, storage, confirmed).storage
       /\ op' = IF confirmed THEN "resetConfirmed" ELSE "resetDeclined"
  /\ alerted' = "none"
  /\ UNCHANGED <<searchInput, searchStatus, candidates, selectedFile, wizard, pending>>
  /\ AppFrame

\* the page is loaded again: a fresh App is mounted over the same localStorage,
\* whatever was in flight is dropped
Reload ==
  /\ state' = Mount(storage).state
  /\ storage' = Mount(storage).storage
  /\ searchInput' = <<>>
  /\ searchStatus' = "idle"
  /\ candidates' = <<>>
  /\ selectedFile' = FALSE
  /\ wizard' = NoWizard
  /\ pending' = <<>>
  /\ alerted' = "none"
  /\ op' = "mount"
  /\ AppFrame

Next ==
  \/ SetTopic
  \/ StartClarification
  \/ WizardQuestions
  \/ WizardAnswer
  \/ WizardNext
  \/ SetSearchInput
  \/ HandleFileSelect
  \/ ClearFile
  \/ HandleAction
  \/ SearchReply
  \/ EvaluateFileReply
  \/ HandleSelectStartup
  \/ EvaluateCandidateReply
  \/ CancelSelect
  \/ HandleRefine
  \/ HandleResetMandate
  \/ Reload

Init == AppInit /\ MandatesInit /\ EndpointsIdle /\ ServiceIdle
Spec == Init /\ [][Next]_vars

\* ------------------------------------------------------ properties, the App

\* the stored item is the JSON text of an object that the load effect accepts
ValidBrief(saved) ==
  /\ saved.kind = "json"
  /\ saved.innovationTopic # <<>>
  /\ Len(saved.clarificationAnswers) >= 1

\* C1: in every reachable state with phase 'evaluation' the topic is non-empty
\* and there is at least one answer; 'evaluation' is entered only from
\* 'clarification' by handleClarificationComplete or by a mount over a saved
\* brief with a non-empty topic and at least one answer; 'clarification' is
\* entered only from 'onboarding' by startClarification with a non-blank topic.
C1_EvaluationEntry ==
  /\ [](state.phase = "evaluation" =>
          /\ state.innovationTopic # <<>>
          /\ Len(state.clarificationAnswers) >= 1)
  /\ [][(state'.phase = "evaluation" /\ (state.phase # "evaluation" \/ op' = "mount"))
          => \/ state.phase = "clarification" /\ op' = "handleClarificationComplete"
             \/ op' = "mount" /\ ValidBrief(storage)]_vars
  /\ [][(state.phase # "clarification" /\ state'.phase = "clarification")
          => /\ state.phase = "onboarding"
             /\ op' = "startClarification"
             /\ Trim(state.innovationTopic) # <<>>]_vars

\* the wizard has just completed with its three answers
C1_Witness ==
  /\ state.phase = "evaluation"
  /\ op = "handleClarificationComplete"
  /\ Len(state.clarificationAnswers) = 3
  /\ Trim(state.innovationTopic) # <<>>

\* C2: whenever the phase is 'evaluation', the item stored under
\* 'innoscout_brief' holds the current topic, answers and refinement rules, and
\* mounting a fresh App over that item gives phase 'evaluation' with exactly
\* the same topic, answers and rules.
C2_BriefMaintained ==
  state.phase = "evaluation" =>
    /\ storage.kind = "json"
    /\ storage.innovationTopic = state.innovationTopic
    /\ storage.clarificationAnswers = state.clarificationAnswers
    /\ storage.hasRules
    /\ storage.refinementRules = state.refinementRules
    /\ Mount(storage).state.phase = "evaluation"
    /\ Mount(storage).state.innovationTopic = state.innovationTopic
    /\ Mount(storage).state.clarificationAnswers = state.clarificationAnswers
    /\ Mount(storage).state.refinementRules = state.refinementRules

\* a rule has just been appended to a brief that is stored
C2_Witness ==
  /\ state.phase = "evaluation"
  /\ op = "handleRefine"
  /\ Len(state.refinementRules) >= 1
  /\ storage = Stringify(state)

\* C3: right after a confirmed reset the state is the initial state and no
\* brief is stored; an absent brief becomes present only by a step that enters
\* 'evaluation'; a declined reset changes neither the state nor the stored item.
C3_Reset ==
  /\ [](op = "resetConfirmed" => state = InitialState /\ storage = NoItem)
  /\ [][(storage = NoItem /\ storage' # NoItem)
          => state.phase # "evaluation" /\ state'.phase = "evaluation"]_vars
  /\ [][op' = "resetDeclined" => state' = state /\ storage' = storage]_vars

\* a mandate was reset while a request was in flight or candidates were shown
C3_Witness ==
  /\ op = "resetConfirmed"
  /\ state = InitialState
  /\ storage = NoItem
  /\ searchStatus # "idle"

\* C12: when a search or an evaluation started from the App fails, the user is
\* alerted, the evaluations list is left as it was, and searchStatus becomes
\* 'idle' (name search, evaluation of an uploaded file) or 'selecting' with
\* the candidates left as they were (evaluation of a selected candidate).
C12_FailureHandled ==
  /\ [][op' \in {"searchFailed", "evaluateFileFailed", "evaluateCandidateFailed"}
          => /\ state'.evaluations = state.evaluations
             /\ op' = "searchFailed"
                  => alerted' = "Search Failed" /\ searchStatus' = "idle"
             /\ op' = "evaluateFileFailed"
                  => alerted' = "Evaluation Failed" /\ searchStatus' = "idle"
             /\ op' = "evaluateCandidateFailed"
                  => /\ alerted' = "Evaluation Failed"
                     /\ searchStatus' = "selecting"
                     /\ candidates' = candidates]_vars
  /\ [][(pending' # pending /\ Len(pending') < Len(pending) /\ op' # "mount"
           /\ alerted' \in {"none", "No startups found"})
          => op' \in {"searchReply", "evaluateFileReply", "evaluateCandidateReply"}]_vars

\* the evaluation of a selected candidate failed while an earlier evaluation
\* was listed: the selector is shown again with its candidates
C12_Witness ==
  /\ op = "evaluateCandidateFailed"
  /\ alerted = "Evaluation Failed"
  /\ searchStatus = "selecting"
  /\ candidates # <<>>
  /\ state.evaluations # <<>>

\* C14: a successful evaluation puts exactly one entry, the result of the
\* request that completed, at the head of the evaluations list and keeps the
\* entries that were there in their order; every other step leaves the list as
\* it is, except a confirmed reset and a fresh mount, which empty it. The list
\* is therefore in reverse order of completion.
C14_NewestFirst ==
  /\ [][op' \in {"evaluateFileReply", "evaluateCandidateReply"}
          => /\ Len(state'.evaluations) = Len(state.evaluations) + 1
             /\ Tail(state'.evaluations) = state.evaluations
             /\ \E i \in 1..Len(pending) :
                  /\ pending' = Without(pending, i)
                  /\ Head(state'.evaluations).startupName = pending[i].name]_vars
  /\ [][state'.evaluations # state.evaluations
          => \/ op' \in {"evaluateFileReply", "evaluateCandidateReply"}
             \/ op' \in {"resetConfirmed", "mount"} /\ state'.evaluations = <<>>]_vars

\* a second evaluation, of another startup, has completed and is listed first
C14_Witness ==
  /\ op \in {"evaluateFileReply", "evaluateCandidateReply"}
  /\ Len(state.evaluations) = 2
  /\ state.evaluations[1].startupName # state.evaluations[2].startupName
  /\ state.phase = "evaluation"

\* C16: at most one search or evaluation request is in flight; while one is,
\* searchStatus is 'searching' (a search) or 'evaluating' (an evaluation), also
\* after a reset; a request is started only from 'idle' (name search, file
\* evaluation) or from 'selecting' (evaluation of a candidate).
C16_OneRequestInFlight ==
  /\ [](/\ Len(pending) <= 1
        /\ \A i \in 1..Len(pending) :
             searchStatus = (IF pending[i].kind = "search" THEN "searching"
                             ELSE "evaluating"))
  /\ [][Len(pending') > Len(pending)
          => /\ pending = <<>>
             /\ Len(pending') = 1
             /\ pending'[1].kind \in {"search", "evaluateFile"}
                  => searchStatus = "idle"
             /\ pending'[1].kind = "evaluateCandidate"
                  => searchStatus = "selecting"]_vars

\* the mandate was reset while an evaluation was pending
C16_Witness ==
  /\ op = "resetConfirmed"
  /\ Len(pending) = 1
  /\ pending[1].kind = "evaluateCandidate"
  /\ searchStatus = "evaluating"
  /\ state.phase = "onboarding"

\* C17: handleRefine appends exactly one rule and keeps the rules that were
\* there in their order; the rule list changes in no other way except that a
\* confirmed reset empties it; an evaluation request carries the answers and
\* the whole rule list of the moment it is started, and its prompt lists the
\* rules in the order they were added.
C17_RulesAppendOnly ==
  /\ [][op' = "handleRefine"
          => /\ Len(state'.refinementRules) = Len(state.refinementRules) + 1
             /\ SubSeq(state'.refinementRules, 1, Len(state.refinementRules))
                  = state.refinementRules]_vars
  /\ [][state'.refinementRules # state.refinementRules
          => \/ op' = "handleRefine"
             \/ op' = "resetConfirmed" /\ state'.refinementRules = <<>>]_vars
  /\ [][(Len(pending') > Len(pending)
           /\ pending'[Len(pending')].kind # "search")
          => LET req == pending'[Len(pending')] IN
               /\ req.context = state.clarificationAnswers
               /\ req.refinementHistory = state.refinementRules
               /\ Len(req.refinementString.lines) = Len(state.refinementRules)
               /\ \A i \in 1..Len(state.refinementRules) :
                    req.refinementString.lines[i] = <<"- ", state.refinementRules[i]>>]_vars

\* an evaluation was started with two rules, the later one second
C17_Witness ==
  /\ op = "handleSelectStartup"
  /\ Len(pending) = 1
  /\ pending[1].refinementHistory = <<"r2", "r1">>
  /\ state.refinementRules = <<"r2", "r1">>
  /\ pending[1].context = state.clarificationAnswers

\* ------------------------------------------- properties, the client service
Prompts(reqs) == [i \in 1..Len(reqs) |-> reqs[i].prompt]
TimesSent(reqs, prompt) == Cardinality({i \in 1..Len(reqs) : reqs[i].prompt = prompt})

\* C10 as stated: one call of findStartups or evaluateStartup sends at most
\* two requests, the initial one and, only when that attempt fails, one second
\* request with a different prompt; if the second also fails the call rejects.
C10_AtMostTwoRequests ==
  HasFallback(scall) =>
    /\ Len(sreqs) <= 2
    /\ Len(sreqs) = 2 => sbaseErr # "none" /\ sreqs[1].prompt # sreqs[2].prompt
    /\ (spc = "done" /\ sfallbackErr # "none") => sresult = "rejected"

\* C10 as amended: at most two attempts, the base prompt and, only when that
\* attempt fails with an error that is no auth error, the fallback prompt; a
\* failed fallback attempt rejects the call. executeGenAI sends an attempt's
\* request a second time, with the same prompt, after an auth error when the
\* key selector exists: at most four requests, at most two without a selector.
C10_AtMostFourRequests ==
  HasFallback(scall) =>
    /\ Len(sreqs) <= 4
    /\ TimesSent(sreqs, "base") <= 2 /\ TimesSent(sreqs, "fallback") <= 2
    /\ spc # "idle" => sreqs # <<>> /\ sreqs[1].prompt = "base"
    /\ \A i, j \in 1..Len(sreqs) :
         (i < j /\ sreqs[i].prompt = "fallback") => sreqs[j].prompt = "fallback"
    /\ TimesSent(sreqs, "fallback") > 0 => sbaseErr = "other"
    /\ ~aistudio => TimesSent(sreqs, "base") <= 1 /\ TimesSent(sreqs, "fallback") <= 1
    /\ (spc = "done" /\ sfallbackErr # "none") => sresult = "rejected"
    /\ \A i \in 1..Len(sreqs) : sreqs[i].file = sfile

\* both attempts were repeated after a key selection, and the fourth request
\* was fulfilled
C10_Witness ==
  /\ scall = "findStartups" /\ spc = "done" /\ sresult = "resolved"
  /\ Prompts(sreqs) = <<"base", "base", "fallback", "fallback">>

\* C13: every call of generateClarificationQuestions that resolves returns
\* exactly 3 questions.
C13_ExactlyThreeQuestions ==
  (scall = "generateClarificationQuestions" /\ spc = "done" /\ sresult = "resolved")
    => svalue = 3

\* what the service does guarantee: at most 3 questions, and exactly 3 when
\* they are the built-in ones returned after a failure
C13_AtMostThreeQuestions ==
  (scall = "generateClarificationQuestions" /\ spc = "done" /\ sresult = "resolved")
    => /\ svalue <= 3
       /\ sbaseErr # "none" => svalue = 3

\* the wizard, which takes its questions from the placeholder service, always
\* presents exactly 3 questions
C13_WizardThreeQuestions ==
  (wizard.mounted /\ ~wizard.loading) => Len(wizard.questions) = 3

InitService == ServiceInit /\ MandatesInit /\ EndpointsIdle /\ AppIdle
SpecService == InitService /\ [][ServiceNext]_vars

InitEndpoints == EndpointsInit /\ MandatesInit /\ ServiceIdle /\ AppIdle
SpecEndpoints == InitEndpoints /\ [][EndpointsNext]_vars

\* ------------------------------------------------ properties, the endpoints
\* C8: the search, find-startups, evaluate and generate-mandate-name
\* endpoints accept only POST: any other method is answered 405 and nothing
\* is sent to the model API.
C8_PostOnly ==
  (epc # "idle" /\ ereq.method # "POST") =>
    /\ apiCalls = <<>>
    /\ epc \in {"start", "responded"}
    /\ epc = "responded" => eres.status = 405

\* a GET to the evaluate endpoint with a complete body was answered 405
C8_Witness ==
  /\ epc = "responded" /\ ereq.method = "GET" /\ ereq.endpoint = "evaluate"
  /\ ereq.body.present /\ ereq.body.candidate
  /\ eres.status = 405 /\ apiCalls = <<>>

\* the required body field is missing or blank
RequiredFieldMissing(r) ==
  CASE r.endpoint \in {"search", "findStartups"} ->
         \/ ~r.body.present
         \/ r.body.query.t = "undefined"
         \/ r.body.query.t = "string" /\ Trim(r.body.query.v) = <<>>
    [] r.endpoint = "evaluate" -> ~r.body.present \/ ~r.body.candidate
    [] r.endpoint = "name" -> ~r.body.present \/ r.body.topic.t # "string"

\* C9: a POST whose required body field is missing or blank is answered 400
\* and nothing is sent to the model API.
C9_MissingFieldIs400 ==
  (epc = "responded" /\ ereq.method = "POST" /\ RequiredFieldMissing(ereq)) =>
    eres.status = 400 /\ apiCalls = <<>>

\* C9 restricted to requests that carry a body: what the code does guarantee
C9_MissingFieldIs400WithBody ==
  (epc = "responded" /\ ereq.method = "POST" /\ ereq.body.present
     /\ RequiredFieldMissing(ereq)) =>
    eres.status = 400 /\ apiCalls = <<>>

NameAnswered ==
  epc = "responded" /\ ereq.endpoint = "name" /\ apiCalls = <<"name">>

\* the model API call produced no name: it failed, or its reply had no text
NoNameGenerated ==
  \/ elist = <<>>
  \/ elist[1].t # "string"
  \/ Trim(elist[1].v) = <<>>

\* the first 50 characters of the topic
IsTruncatedTopic(name) ==
  /\ name.t = "string"
  /\ Len(name.v) = (IF Len(ereq.body.topic.v) < 50 THEN Len(ereq.body.topic.v) ELSE 50)
  /\ \A i \in 1..Len(name.v) : name.v[i] = ereq.body.topic.v[i]

InitMandates == MandatesInit /\ EndpointsIdle /\ ServiceIdle /\ AppIdle
SpecMandates == InitMandates /\ [][MandatesNext]_vars

====
